---- MODULE Spec2Model ----
(***************************************************************************)
(* Model of freqtrade/commands/optimize_commands.py: the stake-sizing      *)
(* validation of setup_optimize_configuration, the start_backtesting /     *)
(* start_hyperopt / start_edge entry points (with the hyperopt run lock    *)
(* shared by concurrent invocations), and start_lookahead_analysis.        *)
(*                                                                         *)
(* Amounts are fixed-point integers: tradable_balance_ratio is counted in  *)
(* 1/RatioDen, dry_run_wallet in whole coins, and stake_amount (like the   *)
(* product dry_run_wallet * tradable_balance_ratio) in 1/RatioDen coins.   *)
(***************************************************************************)
EXTENDS Integers, Sequences, FiniteSets, TLC

\* ---------------------------------------------------------------- bounds
NumProcs == 2
MaxWallet == 2
RatioDen == 2
MaxObjs == 3
MaxReq == 3

\* ------------------------------------------------------ program constants
\* constants.UNLIMITED_STAKE_AMOUNT ('unlimited'), encoded as a value no
\* amount can take
UNLIMITED_STAKE_AMOUNT == -1
\* lock.acquire(timeout=1)
LOCK_TIMEOUT == 1

Procs == 1 .. NumProcs
MaxStake == MaxWallet * RatioDen + 1
NoConfig == [dry_run_wallet |-> -2, tradable_balance_ratio |-> -2, stake_amount |-> -2]
NoLockFile == "no_lock"

\* RunMode members passed by the commands of this file
RunModes == {"BACKTEST", "HYPEROPT", "EDGE"}

\* the configurations the configuration source may hand back
Configs ==
    [dry_run_wallet : 0 .. MaxWallet,
     tradable_balance_ratio : 0 .. RatioDen,
     stake_amount : (0 .. MaxStake) \cup {UNLIMITED_STAKE_AMOUNT}]

\* configurations used when several invocations run side by side: the
\* unlimited sentinel, a stake equal to the wallet size, a stake above it
ContendConfigs ==
    {c \in Configs :
        /\ c.dry_run_wallet = MaxWallet
        /\ c.tradable_balance_ratio = RatioDen
        /\ c.stake_amount \in {UNLIMITED_STAKE_AMOUNT, MaxWallet * RatioDen,
                               MaxWallet * RatioDen + 1}}

\* exceptions the opaque engines may raise; "Timeout" is filelock.Timeout
EngineErrors == {"EngineError", "Timeout"}

VARIABLES
    pc,         \* position of each command invocation
    cmd,        \* the command an invocation runs
    source,     \* the configuration as setup_utils_configuration returned it
    config,     \* that configuration once setup_optimize_configuration has run
    lockObj,    \* lock file of the FileLock object created by the invocation
    lock,       \* the invocations holding each lock file
    acquired,   \* lock.acquire succeeded in this invocation
    waited,     \* time units spent in lock.acquire so far
    engine,     \* progress of the Backtesting / Hyperopt / EdgeCli object
    pending,    \* how the with-block is being left
    result,     \* what the invocation handed back to its caller
    log,        \* logger.info messages emitted by the invocation
    timedOut,   \* lock.acquire raised Timeout in this invocation
    importError,\* the import of the hyperopt dependencies raised ImportError
    startedFree,\* no invocation held a lock file when start_hyperopt was called
    la          \* state of start_lookahead_analysis

cvars == <<pc, cmd, source, config, lockObj, lock, acquired, waited, engine, pending, result, log, timedOut, importError, startedFree>>
vars == <<pc, cmd, source, config, lockObj, lock, acquired, waited, engine, pending, result, log, timedOut,
         importError, startedFree, la>>

\* ------------------------------------------------ setup_optimize_configuration
\* variant: the Edge mode is checked as well
no_unlimited_runmodes_with_edge == {"BACKTEST", "HYPEROPT", "EDGE"}

\* variant: only the backtesting mode is checked
no_unlimited_runmodes_backtest_only == {"BACKTEST"}

no_unlimited_runmodes == {"BACKTEST", "HYPEROPT"}

wallet_size(c) == c.dry_run_wallet * c.tradable_balance_ratio

\* variant: a stake equal to the wallet size is rejected too
stake_too_large_inclusive(c) ==
    /\ c.stake_amount # UNLIMITED_STAKE_AMOUNT
    /\ c.stake_amount >= wallet_size(c)

stake_too_large(c) ==
    /\ c.stake_amount # UNLIMITED_STAKE_AMOUNT
    /\ c.stake_amount > wallet_size(c)

\* variant: the computed wallet size is written back into the configuration
setup_optimize_configuration_writing(c, method) ==
    IF method \in {"BACKTEST", "HYPEROPT"}
    THEN [raised |-> IF stake_too_large(c) THEN "OperationalException" ELSE "none",
          config |-> [c EXCEPT !.dry_run_wallet = wallet_size(c)]]
    ELSE [raised |-> "none", config |-> c]

\* the outcome of setup_optimize_configuration on the configuration c that
\* setup_utils_configuration returned for the run mode method
setup_optimize_configuration(c, method) ==
    IF method \in no_unlimited_runmodes /\ stake_too_large(c)
    THEN [raised |-> "OperationalException", config |-> c]
    ELSE [raised |-> "none", config |-> c]

\* variant: the lock file depends on the configuration
get_lock_filename_per_config(c) ==
    IF c.stake_amount = UNLIMITED_STAKE_AMOUNT THEN "hyperopt.unlimited.lock"
    ELSE "hyperopt.lock"

\* Hyperopt.get_lock_filename(config): one lock file for the hyperopt feature
get_lock_filename(c) == "hyperopt.lock"

LockFiles == {get_lock_filename(c) : c \in Configs}

MethodOf(command) ==
    CASE command = "backtesting" -> "BACKTEST"
      [] command = "hyperopt" -> "HYPEROPT"
      [] OTHER -> "EDGE"

\* ------------------------------------------------------------ Python values
None == [type |-> "None"]
Str(s) == [type |-> "str", val |-> s]
PyList(items) == [type |-> "list", items |-> items]
\* a strategy object as StrategyResolver.search_all_objects returns it: a
\* dict with a 'name' and where it was found
StrategyObj(n, k) == [type |-> "dict", name |-> Str(n), location |-> k]
\* variant: the name of the object is looked up in the list
PyIn_by_name(x, l) == \E k \in 1 .. Len(l.items) : l.items[k] = x.name

\* x in l, for a Python list l: some element equals x
PyIn(x, l) == \E k \in 1 .. Len(l.items) : l.items[k] = x

Names == {"A", "B"}

\* sequences over S of length at most n
RECURSIVE SeqsUpTo(_, _)
SeqsUpTo(S, n) ==
    IF n = 0 THEN {<<>>}
    ELSE LET shorter == SeqsUpTo(S, n - 1) IN
         shorter \cup {Append(q, x) : q \in {r \in shorter : Len(r) = n - 1}, x \in S}

\* what search_all_objects may discover: names may repeat, locations differ
Discoveries ==
    {[k \in 1 .. Len(q) |-> StrategyObj(q[k], k)] : q \in SeqsUpTo(Names, MaxObjs)}

\* args['strategy'] and args['strategy_list'] as the command line gives them
StrategyArgs == {None} \cup {Str(n) : n \in Names}
StrategyListArgs ==
    {None} \cup {PyList([k \in 1 .. Len(q) |-> Str(q[k])]) : q \in SeqsUpTo(Names, MaxReq)}

\* -------------------------------------------------------------------- Init
LaInit ==
    [pc |-> "idle",
     args_strategy |-> None, args_strategy_list |-> None,
     exportfilename |-> None,
     strategy_objs |-> <<>>, strategy_list |-> None,
     i |-> 1, j |-> 1,
     instances |-> <<>>, trace |-> <<>>,
     rendered |-> FALSE, table |-> <<>>,
     exportWritten |-> FALSE, exported |-> <<>>,
     errorLogged |-> FALSE, result |-> "pending"]

Init ==
    /\ pc = [p \in Procs |-> "idle"]
    /\ cmd = [p \in Procs |-> "none"]
    /\ source = [p \in Procs |-> NoConfig]
    /\ config = [p \in Procs |-> NoConfig]
    /\ lockObj = [p \in Procs |-> NoLockFile]
    /\ lock = [f \in LockFiles |-> {}]
    /\ acquired = [p \in Procs |-> FALSE]
    /\ waited = [p \in Procs |-> 0]
    /\ engine = [p \in Procs |-> "none"]
    /\ pending = [p \in Procs |-> "none"]
    /\ result = [p \in Procs |-> "pending"]
    /\ log = [p \in Procs |-> {}]
    /\ timedOut = [p \in Procs |-> FALSE]
    /\ importError = [p \in Procs |-> FALSE]
    /\ startedFree = [p \in Procs |-> FALSE]
    /\ la = LaInit

\* ------------------------------------------------------------ entry points
\* start_backtesting is called: next is setup_optimize_configuration
start_backtesting(p) ==
    /\ pc[p] = "idle"
    /\ cmd' = [cmd EXCEPT ![p] = "backtesting"]
    /\ pc' = [pc EXCEPT ![p] = "setup"]
    /\ UNCHANGED <<source, acquired, config, lockObj, lock, waited, engine, pending, result, log, timedOut, importError, startedFree, la>>

\* start_edge is called
start_edge(p) ==
    /\ pc[p] = "idle"
    /\ cmd' = [cmd EXCEPT ![p] = "edge"]
    /\ pc' = [pc EXCEPT ![p] = "setup"]
    /\ UNCHANGED <<source, acquired, config, lockObj, lock, waited, engine, pending, result, log, timedOut, importError, startedFree, la>>

\* start_hyperopt is called: next is the import of the hyperopt dependencies
start_hyperopt(p) ==
    /\ pc[p] = "idle"
    /\ cmd' = [cmd EXCEPT ![p] = "hyperopt"]
    /\ pc' = [pc EXCEPT ![p] = "import"]
    /\ startedFree' = [startedFree EXCEPT ![p] = \A f \in LockFiles : lock[f] = {}]
    /\ UNCHANGED <<source, acquired, config, lockObj, lock, waited, engine, pending, result, log, timedOut, importError, la>>

\* the imports of filelock and Hyperopt succeed
ImportOk(p) ==
    /\ pc[p] = "import"
    /\ pc' = [pc EXCEPT ![p] = "setup"]
    /\ UNCHANGED <<source, acquired, cmd, config, lockObj, lock, waited, engine, pending, result, log, timedOut, importError, startedFree, la>>

\* variant: the import is attempted once the configuration has been set up
ImportFail_after_setup(p) ==
    /\ pc[p] = "import"
    /\ pc' = [pc EXCEPT ![p] = "done"]
    /\ result' = [result EXCEPT ![p] = "OperationalException"]
    /\ importError' = [importError EXCEPT ![p] = TRUE]
    /\ \E c \in ContendConfigs :
          /\ source' = [source EXCEPT ![p] = c]
          /\ config' = [config EXCEPT ![p] = c]
    /\ UNCHANGED <<acquired, cmd, lockObj, lock, waited, engine, pending, log, timedOut, startedFree, la>>

\* ImportError: re-raised as OperationalException
ImportFail(p) ==
    /\ pc[p] = "import"
    /\ pc' = [pc EXCEPT ![p] = "done"]
    /\ result' = [result EXCEPT ![p] = "OperationalException"]
    /\ importError' = [importError EXCEPT ![p] = TRUE]
    /\ UNCHANGED <<source, acquired, cmd, config, lockObj, lock, waited, engine, pending, log, timedOut, startedFree, la>>

\* config = setup_optimize_configuration(args, method), then the
\* 'Starting freqtrade in ... mode' message; c is what the configuration
\* source returns
SetupOptimize(p, c) ==
    /\ pc[p] = "setup"
    /\ source' = [source EXCEPT ![p] = c]
    /\ LET r == setup_optimize_configuration(c, MethodOf(cmd[p])) IN
          /\ config' = [config EXCEPT ![p] = r.config]
          /\ IF r.raised # "none"
             THEN /\ pc' = [pc EXCEPT ![p] = "done"]
                  /\ result' = [result EXCEPT ![p] = r.raised]
                  /\ UNCHANGED log
             ELSE /\ pc' = [pc EXCEPT ![p] = "configured"]
                  /\ log' = [log EXCEPT ![p] = @ \cup {"starting"}]
                  /\ UNCHANGED result
    /\ UNCHANGED <<acquired, cmd, lockObj, lock, waited, engine, pending, timedOut, importError, startedFree, la>>

\* ---------------------------------------------- start_backtesting / start_edge
\* Backtesting(config) / EdgeCli(config)
ConstructPlain(p) ==
    /\ pc[p] = "configured"
    /\ cmd[p] \in {"backtesting", "edge"}
    /\ engine' = [engine EXCEPT ![p] = "constructed"]
    /\ pc' = [pc EXCEPT ![p] = "constructed"]
    /\ UNCHANGED <<source, acquired, cmd, config, lockObj, lock, waited, pending, result, log, timedOut, importError, startedFree, la>>

\* backtesting.start() / edge_cli.start() begins
StartPlain(p) ==
    /\ pc[p] = "constructed"
    /\ cmd[p] \in {"backtesting", "edge"}
    /\ engine' = [engine EXCEPT ![p] = "started"]
    /\ pc' = [pc EXCEPT ![p] = "running"]
    /\ UNCHANGED <<source, acquired, cmd, config, lockObj, lock, waited, pending, result, log, timedOut, importError, startedFree, la>>

\* the engine returns; the command returns None
PlainReturn(p) ==
    /\ pc[p] = "running"
    /\ cmd[p] \in {"backtesting", "edge"}
    /\ engine' = [engine EXCEPT ![p] = "finished"]
    /\ pc' = [pc EXCEPT ![p] = "done"]
    /\ result' = [result EXCEPT ![p] = "None"]
    /\ UNCHANGED <<source, acquired, cmd, config, lockObj, lock, waited, pending, log, timedOut, importError, startedFree, la>>

\* the constructor or start() raises e: nothing catches it
PlainRaise(p, e) ==
    /\ pc[p] \in {"configured", "running"}
    /\ cmd[p] \in {"backtesting", "edge"}
    /\ engine' = [engine EXCEPT ![p] = "raised"]
    /\ pc' = [pc EXCEPT ![p] = "done"]
    /\ result' = [result EXCEPT ![p] = e]
    /\ UNCHANGED <<source, acquired, cmd, config, lockObj, lock, waited, pending, log, timedOut, importError, startedFree, la>>

\* ------------------------------------------------------------ start_hyperopt
\* lock = FileLock(Hyperopt.get_lock_filename(config))
CreateLock(p) ==
    /\ pc[p] = "configured"
    /\ cmd[p] = "hyperopt"
    /\ lockObj' = [lockObj EXCEPT ![p] = get_lock_filename(config[p])]
    /\ pc' = [pc EXCEPT ![p] = "acquire"]
    /\ UNCHANGED <<source, acquired, cmd, config, lock, waited, engine, pending, result, log, timedOut, importError, startedFree, la>>

\* variant: no except branch, a Timeout propagates like any exception
AfterWith_uncaught(how) ==
    CASE how = "return" -> [result |-> "None", logs |-> {}]
      [] OTHER -> [result |-> how, logs |-> {}]

\* what leaves start_hyperopt once the with-block was left by how:
\* 'except Timeout' absorbs a Timeout and logs, anything else propagates
AfterWith(how) ==
    CASE how = "return" -> [result |-> "None", logs |-> {}]
      [] how = "Timeout" -> [result |-> "None", logs |-> {"another_instance"}]
      [] OTHER -> [result |-> how, logs |-> {}]

\* variant: the lock file is taken whoever holds it
is_free_unchecked(holders) == TRUE

\* the lock file can be taken when no invocation holds it
is_free(holders) == holders = {}

\* lock.acquire(timeout=1): an attempt finds the lock file free and takes it
AcquireLock(p) ==
    /\ pc[p] = "acquire"
    /\ is_free(lock[lockObj[p]])
    /\ lock' = [lock EXCEPT ![lockObj[p]] = @ \cup {p}]
    /\ acquired' = [acquired EXCEPT ![p] = TRUE]
    /\ pc' = [pc EXCEPT ![p] = "locked"]
    /\ UNCHANGED <<source, cmd, config, lockObj, waited, engine, pending, result, log, timedOut, importError, startedFree, la>>

\* an attempt finds the lock file held and the timeout not yet elapsed
AcquireWait(p) ==
    /\ pc[p] = "acquire"
    /\ ~is_free(lock[lockObj[p]])
    /\ waited[p] < LOCK_TIMEOUT
    /\ waited' = [waited EXCEPT ![p] = @ + 1]
    /\ UNCHANGED <<source, acquired, pc, cmd, config, lockObj, lock, engine, pending, result, log, timedOut, importError, startedFree, la>>

\* variant: once the timeout has elapsed Timeout is raised without a last
\* look at the lock file
AcquireTimeout_eager(p) ==
    /\ pc[p] = "acquire"
    /\ waited[p] >= LOCK_TIMEOUT
    /\ timedOut' = [timedOut EXCEPT ![p] = TRUE]
    /\ log' = [log EXCEPT ![p] = @ \cup AfterWith("Timeout").logs]
    /\ result' = [result EXCEPT ![p] = AfterWith("Timeout").result]
    /\ pc' = [pc EXCEPT ![p] = "done"]
    /\ UNCHANGED <<source, acquired, cmd, config, lockObj, lock, waited, engine, pending, importError, startedFree, la>>

\* an attempt finds the lock file held and the timeout elapsed: Timeout is
\* raised, the except branch logs the three messages and the function ends
AcquireTimeout(p) ==
    /\ pc[p] = "acquire"
    /\ ~is_free(lock[lockObj[p]])
    /\ waited[p] >= LOCK_TIMEOUT
    /\ timedOut' = [timedOut EXCEPT ![p] = TRUE]
    /\ log' = [log EXCEPT ![p] = @ \cup AfterWith("Timeout").logs]
    /\ result' = [result EXCEPT ![p] = AfterWith("Timeout").result]
    /\ pc' = [pc EXCEPT ![p] = "done"]
    /\ UNCHANGED <<source, acquired, cmd, config, lockObj, lock, waited, engine, pending, importError, startedFree, la>>

\* hyperopt = Hyperopt(config), inside the with-block
ConstructHyperopt(p) ==
    /\ pc[p] = "locked"
    /\ engine' = [engine EXCEPT ![p] = "constructed"]
    /\ pc' = [pc EXCEPT ![p] = "constructed"]
    /\ UNCHANGED <<source, acquired, cmd, config, lockObj, lock, waited, pending, result, log, timedOut, importError, startedFree, la>>

\* hyperopt.start() begins
StartHyperopt(p) ==
    /\ pc[p] = "constructed"
    /\ cmd[p] = "hyperopt"
    /\ engine' = [engine EXCEPT ![p] = "started"]
    /\ pc' = [pc EXCEPT ![p] = "running"]
    /\ UNCHANGED <<source, acquired, cmd, config, lockObj, lock, waited, pending, result, log, timedOut, importError, startedFree, la>>

\* hyperopt.start() returns: the with-block is left normally
HyperoptReturn(p) ==
    /\ pc[p] = "running"
    /\ cmd[p] = "hyperopt"
    /\ engine' = [engine EXCEPT ![p] = "finished"]
    /\ pending' = [pending EXCEPT ![p] = "return"]
    /\ pc' = [pc EXCEPT ![p] = "exit_with"]
    /\ UNCHANGED <<source, acquired, cmd, config, lockObj, lock, waited, result, log, timedOut, importError, startedFree, la>>

\* Hyperopt(config) or hyperopt.start() raises e: the with-block is left by
\* the exception
HyperoptRaise(p, e) ==
    /\ \/ pc[p] = "locked"
       \/ pc[p] = "running" /\ cmd[p] = "hyperopt"
    /\ engine' = [engine EXCEPT ![p] = "raised"]
    /\ pending' = [pending EXCEPT ![p] = e]
    /\ pc' = [pc EXCEPT ![p] = "exit_with"]
    /\ UNCHANGED <<source, acquired, cmd, config, lockObj, lock, waited, result, log, timedOut, importError, startedFree, la>>

\* variant: leaving the with-block keeps the lock
Released_kept(lk, p) == lk

\* the lock file is free again once the context manager has exited
Released(lk, p) == [f \in DOMAIN lk |-> lk[f] \ {p}]

\* the context manager of lock.acquire exits: the lock is released, then
\* the function ends as AfterWith says
ExitWith(p) ==
    /\ pc[p] = "exit_with"
    /\ lock' = Released(lock, p)
    /\ result' = [result EXCEPT ![p] = AfterWith(pending[p]).result]
    /\ log' = [log EXCEPT ![p] = @ \cup AfterWith(pending[p]).logs]
    /\ pc' = [pc EXCEPT ![p] = "done"]
    /\ UNCHANGED <<source, acquired, cmd, config, lockObj, waited, engine, pending, timedOut, importError, startedFree, la>>

\* -------------------------------------------------- start_lookahead_analysis
\* lines 158-162: the list of requested names
unify(strategy, strategy_list) ==
    IF strategy # None THEN PyList(<<strategy>>) ELSE strategy_list

\* line 168: the condition under which strategy_obj gives a job for strat
matches(strategy_obj, strat, strategy_list) ==
    strategy_obj.name = strat /\ ~PyIn(strategy_obj, strategy_list)

\* the LookaheadAnalysis instance initialize_single_lookahead_analysis returns
Instance(strategy_obj) == [type |-> "LookaheadAnalysis", strategy_obj |-> strategy_obj]

\* variant: the new instance is put in front
record_instance_front(instances, inst) == <<inst>> \o instances

\* line 169: lookaheadAnalysis_instances.append(...)
record_instance(instances, inst) == Append(instances, inst)

\* variant: no break, the inner loop goes on with the next object
after_match_continue(i, j) == [i |-> i, j |-> j + 1]

\* line 172: break, the next requested name is looked at from the first object
after_match(i, j) == [i |-> i + 1, j |-> 1]

\* variant: the report branch is taken whatever the instances
report_wanted_always(instances) == TRUE

\* line 175: if lookaheadAnalysis_instances
report_wanted(instances) == instances # <<>>

\* variant: the export is written whatever the configured file name
export_wanted_always(exportfilename) == TRUE

\* line 178: config['lookahead_analysis_exportfilename'] is not None
export_wanted(exportfilename) == exportfilename # None

Event(e, k) == [ev |-> e, loc |-> k]

\* lines 145-162: configuration, discovery, the requested names
LaStart(strategy, slist, objs, exportfilename) ==
    /\ la.pc = "idle"
    /\ la' = [la EXCEPT !.pc = "loop",
                        !.args_strategy = strategy,
                        !.args_strategy_list = slist,
                        !.exportfilename = exportfilename,
                        !.strategy_objs = objs,
                        !.strategy_list = unify(strategy, slist),
                        !.i = 1, !.j = 1]
    /\ UNCHANGED cvars

\* line 165: strategy_list is None, the loops are skipped
LaNoList ==
    /\ la.pc = "loop"
    /\ la.strategy_list = None
    /\ la' = [la EXCEPT !.pc = "report"]
    /\ UNCHANGED cvars

InLoop ==
    /\ la.pc = "loop"
    /\ la.strategy_list # None
    /\ la.i <= Len(la.strategy_list.items)

\* line 168 is false for the object at j: the inner loop goes on
LaSkipObj ==
    /\ InLoop
    /\ la.j <= Len(la.strategy_objs)
    /\ ~matches(la.strategy_objs[la.j], la.strategy_list.items[la.i], la.strategy_list)
    /\ la' = [la EXCEPT !.j = @ + 1]
    /\ UNCHANGED cvars

\* the inner loop ran out of objects: next requested name
LaNextName ==
    /\ InLoop
    /\ la.j > Len(la.strategy_objs)
    /\ la' = [la EXCEPT !.i = @ + 1, !.j = 1]
    /\ UNCHANGED cvars

\* line 168 is true: initialize_single_lookahead_analysis is called
LaJobStart ==
    /\ InLoop
    /\ la.j <= Len(la.strategy_objs)
    /\ matches(la.strategy_objs[la.j], la.strategy_list.items[la.i], la.strategy_list)
    /\ la' = [la EXCEPT !.pc = "job",
                        !.trace = Append(@, Event("job_start", la.j))]
    /\ UNCHANGED cvars

\* the job returns its instance: it is appended, then break
LaJobReturn ==
    /\ la.pc = "job"
    /\ la' = [la EXCEPT !.pc = "loop",
                        !.instances = record_instance(@, Instance(la.strategy_objs[la.j])),
                        !.trace = Append(@, Event("job_end", la.j)),
                        !.i = after_match(la.i, la.j).i,
                        !.j = after_match(la.i, la.j).j]
    /\ UNCHANGED cvars

\* variant: the failure of a job is swallowed and the next name is looked at
LaJobRaise_swallowed ==
    /\ la.pc = "job"
    /\ la' = [la EXCEPT !.pc = "loop", !.i = @ + 1, !.j = 1,
                        !.trace = Append(@, Event("job_raise", la.j))]
    /\ UNCHANGED cvars

\* the job raises: nothing catches it
LaJobRaise ==
    /\ la.pc = "job"
    /\ la' = [la EXCEPT !.pc = "done", !.result = "EngineError",
                        !.trace = Append(@, Event("job_raise", la.j))]
    /\ UNCHANGED cvars

\* the outer loop ran out of requested names
LaLoopDone ==
    /\ la.pc = "loop"
    /\ la.strategy_list # None
    /\ la.i > Len(la.strategy_list.items)
    /\ la' = [la EXCEPT !.pc = "report"]
    /\ UNCHANGED cvars

\* lines 175-177: text_table_lookahead_analysis_instances
LaTable ==
    /\ la.pc = "report"
    /\ report_wanted(la.instances)
    /\ la' = [la EXCEPT !.pc = "export", !.rendered = TRUE, !.table = la.instances,
                        !.trace = Append(@, Event("table", 0))]
    /\ UNCHANGED cvars

\* lines 178-179: export_to_csv, then the function returns
LaExport ==
    /\ la.pc = "export"
    /\ export_wanted(la.exportfilename)
    /\ la' = [la EXCEPT !.pc = "done", !.result = "None",
                        !.exportWritten = TRUE, !.exported = la.instances,
                        !.trace = Append(@, Event("export", 0))]
    /\ UNCHANGED cvars

\* no export file name configured: the function returns
LaNoExport ==
    /\ la.pc = "export"
    /\ ~export_wanted(la.exportfilename)
    /\ la' = [la EXCEPT !.pc = "done", !.result = "None"]
    /\ UNCHANGED cvars

\* lines 180-184: logger.error, then the function returns
LaError ==
    /\ la.pc = "report"
    /\ ~report_wanted(la.instances)
    /\ la' = [la EXCEPT !.pc = "done", !.result = "None", !.errorLogged = TRUE,
                        !.trace = Append(@, Event("error", 0))]
    /\ UNCHANGED cvars

\* ---------------------------------------------------------- specifications
\* concurrent start_hyperopt invocations
Next ==
    \E p \in Procs :
        \/ start_hyperopt(p)
        \/ ImportOk(p)
        \/ ImportFail(p)
        \/ \E c \in ContendConfigs : SetupOptimize(p, c)
        \/ CreateLock(p)
        \/ AcquireLock(p)
        \/ AcquireWait(p)
        \/ AcquireTimeout(p)
        \/ ConstructHyperopt(p)
        \/ StartHyperopt(p)
        \/ HyperoptReturn(p)
        \/ \E e \in EngineErrors : HyperoptRaise(p, e)
        \/ ExitWith(p)

Spec == Init /\ [][Next]_vars

\* configurations for the progress of the lock, where only passing or
\* failing the validation matters: a stake equal to the wallet size, one above
FairConfigs == {c \in ContendConfigs : c.stake_amount # UNLIMITED_STAKE_AMOUNT}

\* the steps of a start_hyperopt invocation once it has been called
ProcStep(p) ==
    \/ ImportOk(p)
    \/ ImportFail(p)
    \/ \E c \in FairConfigs : SetupOptimize(p, c)
    \/ CreateLock(p)
    \/ AcquireLock(p)
    \/ AcquireWait(p)
    \/ AcquireTimeout(p)
    \/ ConstructHyperopt(p)
    \/ StartHyperopt(p)
    \/ HyperoptReturn(p)
    \/ \E e \in EngineErrors : HyperoptRaise(p, e)
    \/ ExitWith(p)

NextFair == \E p \in Procs : start_hyperopt(p) \/ ProcStep(p)

\* concurrent start_hyperopt invocations, each of which keeps running once
\* called: the process is scheduled, lock.acquire polls, the engine ends
SpecFair == Init /\ [][NextFair]_vars /\ \A p \in Procs : WF_vars(ProcStep(p))

\* one invocation of any of the three commands, over every configuration
NextCommands ==
    \/ start_backtesting(1)
    \/ start_edge(1)
    \/ start_hyperopt(1)
    \/ ImportOk(1)
    \/ ImportFail(1)
    \/ \E c \in Configs : SetupOptimize(1, c)
    \/ ConstructPlain(1)
    \/ StartPlain(1)
    \/ PlainReturn(1)
    \/ \E e \in EngineErrors : PlainRaise(1, e)
    \/ CreateLock(1)
    \/ AcquireLock(1)
    \/ ConstructHyperopt(1)
    \/ StartHyperopt(1)
    \/ HyperoptReturn(1)
    \/ \E e \in EngineErrors : HyperoptRaise(1, e)
    \/ ExitWith(1)

SpecCommands == Init /\ [][NextCommands]_vars

\* one invocation of start_lookahead_analysis
NextLookahead ==
    \/ \E strategy \in StrategyArgs, slist \in StrategyListArgs,
          objs \in Discoveries, exportfilename \in {None, Str("export.csv")} :
            LaStart(strategy, slist, objs, exportfilename)
    \/ LaNoList
    \/ LaSkipObj
    \/ LaNextName
    \/ LaJobStart
    \/ LaJobReturn
    \/ LaJobRaise
    \/ LaLoopDone
    \/ LaTable
    \/ LaExport
    \/ LaNoExport
    \/ LaError

SpecLookahead == Init /\ [][NextLookahead]_vars

\* ------------------------------------------------------------------ claims
Holds(p) == lockObj[p] \in LockFiles /\ p \in lock[lockObj[p]]

EngineExecuting(p) == engine[p] \in {"constructed", "started"}

\* C1: at most one invocation at a time holds the run lock, and the
\* Hyperopt engine is constructed or running only in an invocation that
\* holds the lock at that moment (so in at most one invocation at a time)
C1_MutualExclusion ==
    /\ \A f \in LockFiles : Cardinality(lock[f]) <= 1
    /\ \A p \in Procs : EngineExecuting(p) => Holds(p)
    /\ \A p, q \in Procs : EngineExecuting(p) /\ EngineExecuting(q) => p = q

\* one invocation runs the engine under the lock while another one waits
C1_Witness ==
    \E p, q \in Procs :
        /\ p # q
        /\ engine[p] = "started" /\ Holds(p)
        /\ pc[q] = "acquire" /\ waited[q] >= LOCK_TIMEOUT

\* C2: an invocation whose lock acquisition timed out has returned normally
\* (value None, no exception) and has never constructed or started the engine
C2_TimeoutBeforeEngine ==
    \A p \in Procs :
        timedOut[p] => pc[p] = "done" /\ result[p] = "None" /\ engine[p] = "none"

\* an invocation timed out while another one was running the engine
C2_Witness ==
    \E p, q \in Procs :
        p # q /\ timedOut[p] /\ pc[p] = "done" /\ engine[q] = "started"

\* C3: an invocation that has ended holds no lock, whatever the exit path,
\* and an invocation whose acquisition timed out never held the lock
C3_ReleasedAtEnd ==
    \A p \in Procs :
        /\ pc[p] = "done" => \A f \in LockFiles : p \notin lock[f]
        /\ timedOut[p] => ~acquired[p]

\* an invocation that had the lock ended by an engine failure while another
\* invocation ended by an acquisition timeout
C3_Witness ==
    \E p, q \in Procs :
        /\ pc[p] = "done" /\ acquired[p] /\ result[p] = "EngineError"
        /\ pc[q] = "done" /\ timedOut[q]

\* C4 (as claimed): the outcome of an invocation skipped on contention
\* differs from the outcome of an invocation that completed the engine
C4_SkippedDistinguishable ==
    \A p, q \in Procs :
        (/\ pc[p] = "done" /\ timedOut[p]
         /\ pc[q] = "done" /\ acquired[q] /\ engine[q] = "finished")
            => result[p] # result[q]

Validated(p) == cmd[p] \in {"backtesting", "hyperopt"} /\ source[p] # NoConfig

ExceedsWallet(c) ==
    c.stake_amount # UNLIMITED_STAKE_AMOUNT
        /\ c.stake_amount > c.dry_run_wallet * c.tradable_balance_ratio

StakeRejected(p) ==
    pc[p] = "done" /\ result[p] = "OperationalException" /\ source[p] # NoConfig

\* C5: in the BACKTEST and HYPEROPT modes the configuration is rejected with
\* an OperationalException exactly when stake_amount is not the unlimited
\* sentinel and is strictly greater than dry_run_wallet *
\* tradable_balance_ratio; a stake equal to the product and the unlimited
\* sentinel are accepted
C5_StakeValidation ==
    \A p \in Procs :
        Validated(p) =>
            /\ StakeRejected(p) <=> ExceedsWallet(source[p])
            /\ source[p].stake_amount
                    = source[p].dry_run_wallet * source[p].tradable_balance_ratio
                 => ~StakeRejected(p)
            /\ source[p].stake_amount = UNLIMITED_STAKE_AMOUNT => ~StakeRejected(p)

\* a positive stake equal to the wallet size went through the validation
C5_Witness ==
    \E p \in Procs :
        /\ Validated(p) /\ pc[p] = "configured"
        /\ source[p].stake_amount > 0
        /\ source[p].stake_amount
              = source[p].dry_run_wallet * source[p].tradable_balance_ratio

\* C6: once start_backtesting or start_hyperopt got a configuration whose
\* stake exceeds the wallet size, the invocation has ended with no engine
\* constructed or started, no lock object created and no lock acquired
C6_AbortBeforeEngine ==
    \A p \in Procs :
        Validated(p) /\ ExceedsWallet(source[p]) =>
            /\ pc[p] = "done"
            /\ engine[p] = "none"
            /\ lockObj[p] = NoLockFile
            /\ ~acquired[p]
            /\ \A f \in LockFiles : p \notin lock[f]

\* start_hyperopt ended on a stake larger than the wallet size
C6_Witness ==
    \E p \in Procs :
        /\ cmd[p] = "hyperopt" /\ StakeRejected(p)
        /\ ExceedsWallet(source[p])

\* the requested names the matching loop goes through
RequestedNames == IF la.strategy_list = None THEN <<>> ELSE la.strategy_list.items

\* index of the first object of objs named name, 0 when there is none
FirstNamed(name, objs) ==
    IF \E k \in 1 .. Len(objs) : objs[k].name = name
    THEN CHOOSE k \in 1 .. Len(objs) :
            /\ objs[k].name = name
            /\ \A m \in 1 .. (k - 1) : objs[m].name # name
    ELSE 0

\* one job per requested name that has a discovered object, in request order
RECURSIVE ResolveByName(_, _)
ResolveByName(names, objs) ==
    IF names = <<>> THEN <<>>
    ELSE LET k == FirstNamed(Head(names), objs) IN
         (IF k = 0 THEN <<>>
          ELSE <<[type |-> "LookaheadAnalysis", strategy_obj |-> objs[k]]>>)
            \o ResolveByName(Tail(names), objs)

LoopOver == la.pc \in {"report", "export"} \/ (la.pc = "done" /\ la.result = "None")

\* C7: the job list holds, for each requested name in request order, one job
\* for the first discovered object of that name and nothing for a name that
\* no discovered object has
C7_JobList ==
    /\ LoopOver => la.instances = ResolveByName(RequestedNames, la.strategy_objs)
    /\ la.pc = "loop" /\ la.strategy_list # None
          => la.instances
                = ResolveByName(SubSeq(RequestedNames, 1, la.i - 1), la.strategy_objs)
    /\ Len(la.instances) <= Len(RequestedNames)

\* two jobs whose order is the request order and not the discovery order
C7_Witness ==
    /\ la.pc = "done" /\ la.result = "None"
    /\ Len(la.instances) = 2
    /\ la.instances[1].strategy_obj.location > la.instances[2].strategy_obj.location

ItemsOf(l) == IF l = None THEN {} ELSE {l.items[k] : k \in 1 .. Len(l.items)}

\* C8 (as claimed): the requested names are those of args['strategy'] (when
\* not None) together with those of args['strategy_list']
C8_RequestIsUnion ==
    la.pc # "idle" =>
        ItemsOf(la.strategy_list)
            = (IF la.args_strategy = None THEN {} ELSE {la.args_strategy})
                \cup ItemsOf(la.args_strategy_list)

NoJobEvent == \A k \in 1 .. Len(la.trace) : la.trace[k].ev \notin {"job_start", "job_end"}

\* C9: when no requested name resolves to a discovered strategy, no table is
\* rendered and no export written at any point, and the run ends with the
\* 'no strategies specified' error logged
C9_EmptyTerminal ==
    la.pc # "idle" /\ ResolveByName(RequestedNames, la.strategy_objs) = <<>> =>
        /\ ~la.rendered /\ ~la.exportWritten /\ NoJobEvent
        /\ la.pc \notin {"job", "export"}
        /\ la.pc = "done" => la.errorLogged /\ la.result = "None"

\* names were requested and an export file configured, nothing resolved
C9_Witness ==
    /\ la.pc = "done" /\ la.errorLogged
    /\ la.exportfilename # None
    /\ Len(RequestedNames) > 0 /\ Len(la.strategy_objs) > 0

JobEnds == SelectSeq(la.trace, LAMBDA e : e.ev = "job_end")

Resolved == ResolveByName(RequestedNames, la.strategy_objs)

\* C10: a job starts only when every job started before has ended, jobs end
\* in the order of the resolved strategies, and the table renderer and the
\* export receive the results in that order
C10_JobOrder ==
    /\ \A k \in 1 .. Len(la.trace) :
          la.trace[k].ev = "job_start" =>
             \A m \in 1 .. (k - 1) :
                la.trace[m].ev = "job_start" =>
                   /\ la.trace[m + 1].ev = "job_end"
                   /\ la.trace[m + 1].loc = la.trace[m].loc
    /\ Len(JobEnds) <= Len(Resolved)
    /\ \A k \in 1 .. Len(JobEnds) : JobEnds[k].loc = Resolved[k].strategy_obj.location
    /\ \A k \in 1 .. Len(la.instances) :
          la.instances[k].strategy_obj.location = JobEnds[k].loc
    /\ la.rendered => la.table = Resolved
    /\ la.exportWritten => la.exported = Resolved

\* two different strategies were analysed, rendered and exported
C10_Witness ==
    /\ la.rendered /\ la.exportWritten
    /\ Len(la.table) = 2
    /\ la.table[1].strategy_obj.name # la.table[2].strategy_obj.name

\* C11: once a job has raised, the run is over with that failure: the
\* raise is the last thing that happened, no job, table, export or error
\* message follows, whatever results earlier jobs had produced
C11_FailingJobAborts ==
    /\ \A k \in 1 .. Len(la.trace) :
          la.trace[k].ev = "job_raise" =>
             k = Len(la.trace) /\ la.pc = "done" /\ la.result = "EngineError"
    /\ la.result = "EngineError" =>
          la.pc = "done" /\ ~la.rendered /\ ~la.exportWritten /\ ~la.errorLogged

\* a job raised after an earlier job had produced a result, export configured
C11_Witness ==
    /\ la.result = "EngineError"
    /\ Len(la.instances) >= 1
    /\ la.exportfilename # None
    /\ la.i < Len(RequestedNames)

\* C12 (as claimed): a failure raised by the engine under the lock reaches
\* the caller unmodified, and 'another running instance' is logged only
\* when the lock acquisition itself timed out
C12_EngineFailurePropagates ==
    \A p \in Procs :
        /\ pc[p] = "done" /\ engine[p] = "raised" => result[p] = pending[p]
        /\ "another_instance" \in log[p] => timedOut[p]

\* C13: every invocation that created its lock object uses the same lock
\* file, and two invocations with different configurations never have the
\* engine executing at the same time
C13_SingleLock ==
    /\ \A p, q \in Procs :
          lockObj[p] # NoLockFile /\ lockObj[q] # NoLockFile => lockObj[p] = lockObj[q]
    /\ \A p, q \in Procs :
          p # q /\ config[p] # config[q] => ~(EngineExecuting(p) /\ EngineExecuting(q))

\* an invocation waits for the lock that an invocation with another
\* configuration holds while running the engine
C13_Witness ==
    \E p, q \in Procs :
        /\ config[p] # NoConfig /\ config[q] # NoConfig /\ config[p] # config[q]
        /\ engine[p] = "started" /\ Holds(p)
        /\ pc[q] = "acquire" /\ waited[q] > 0

\* C14: setup_optimize_configuration leaves the configuration as the
\* configuration source supplied it, whether the validation succeeds or fails
C14_ConfigUnchanged ==
    \A p \in Procs :
        /\ source[p] # NoConfig => config[p] = source[p]
        /\ source[p] = NoConfig => config[p] = NoConfig

\* a limited stake below the wallet size went through the validation
C14_Witness ==
    \E p \in Procs :
        /\ cmd[p] = "backtesting" /\ pc[p] = "configured"
        /\ source[p].stake_amount > 0
        /\ source[p].stake_amount
              < source[p].dry_run_wallet * source[p].tradable_balance_ratio
        /\ config[p] = source[p]

\* C15: start_edge never ends on the stake-sizing OperationalException,
\* whatever the stake, and does not end without the Edge engine reached
C15_EdgeNotValidated ==
    \A p \in Procs :
        cmd[p] = "edge" /\ source[p] # NoConfig =>
            /\ result[p] # "OperationalException"
            /\ pc[p] # "setup"
            /\ pc[p] = "done" => engine[p] \in {"finished", "raised"}

\* start_edge runs the engine on a stake larger than the wallet size
C15_Witness ==
    \E p \in Procs :
        cmd[p] = "edge" /\ ExceedsWallet(source[p]) /\ engine[p] = "started"

JobEndsBefore(k) == SelectSeq(SubSeq(la.trace, 1, k - 1), LAMBDA e : e.ev = "job_end")

\* C16: the table is rendered only once every resolved job has ended and is
\* followed by nothing but the export; the export comes right after the
\* table, and only with at least one result and a file name that is not None
C16_ReportOrder ==
    /\ \A k \in 1 .. Len(la.trace) :
          la.trace[k].ev = "table" =>
             /\ Len(JobEndsBefore(k)) = Len(Resolved)
             /\ \A m \in (k + 1) .. Len(la.trace) : la.trace[m].ev = "export"
    /\ \A k \in 1 .. Len(la.trace) :
          la.trace[k].ev = "export" => k > 1 /\ la.trace[k - 1].ev = "table"
    /\ la.exportWritten =>
          la.rendered /\ la.instances # <<>> /\ la.exportfilename # None
    /\ la.rendered => la.instances # <<>>

\* results were rendered and the run ended without export, none configured
C16_Witness ==
    /\ la.pc = "done" /\ la.rendered /\ ~la.exportWritten
    /\ la.exportfilename = None
    /\ Len(la.instances) >= 2

\* C17: no discovered object is ever contained in the list of requested
\* names, so the condition of line 168 is the equality of the names and the
\* job list is the one of a resolver that matches by name only
C17_ContainmentNoOp ==
    /\ la.strategy_list # None =>
          \A k \in 1 .. Len(la.strategy_objs) : ~PyIn(la.strategy_objs[k], la.strategy_list)
    /\ InLoop /\ la.j <= Len(la.strategy_objs) =>
          (matches(la.strategy_objs[la.j], la.strategy_list.items[la.i], la.strategy_list)
              <=> la.strategy_objs[la.j].name = la.strategy_list.items[la.i])
    /\ LoopOver => la.instances = Resolved

\* the condition was true for an object whose name is in the requested list
C17_Witness ==
    /\ la.pc = "job"
    /\ Len(RequestedNames) >= 2
    /\ la.strategy_objs[la.j].name = RequestedNames[la.i]

\* C18: an invocation whose import failed has ended with an
\* OperationalException with no configuration set up, no message logged, no
\* lock object created, no lock acquired and no engine constructed
C18_ImportFailsFirst ==
    \A p \in Procs :
        importError[p] =>
            /\ pc[p] = "done" /\ result[p] = "OperationalException"
            /\ source[p] = NoConfig /\ config[p] = NoConfig
            /\ log[p] = {}
            /\ lockObj[p] = NoLockFile /\ ~acquired[p] /\ ~timedOut[p]
            /\ \A f \in LockFiles : p \notin lock[f]
            /\ engine[p] = "none"

\* the import failed in one invocation while another one ran the engine
C18_Witness ==
    \E p, q \in Procs :
        importError[p] /\ pc[p] = "done" /\ engine[q] = "started"

\* C19 (as claimed, its last part): an invocation that was started while no
\* invocation held the lock does not end on a lock-acquisition timeout
C19_StartedFreeAcquires ==
    \A p \in Procs : startedFree[p] => ~timedOut[p]

\* C19 (amended): every invocation that was called eventually ends, one that
\* reached lock.acquire either with the with-block entered once or skipped
\* on contention; a held lock is eventually free again; and an acquisition
\* attempt that finds the lock free takes it instead of giving up
C19_LockProgress ==
    /\ \A p \in Procs : (pc[p] # "idle") ~> (pc[p] = "done")
    /\ \A f \in LockFiles : (lock[f] # {}) ~> (lock[f] = {})
    /\ [](\A p \in Procs :
            pc[p] = "done" /\ lockObj[p] # NoLockFile =>
               \/ acquired[p] /\ ~timedOut[p] /\ engine[p] \in {"finished", "raised"}
               \/ timedOut[p] /\ ~acquired[p] /\ engine[p] = "none")
    /\ [][\A p \in Procs :
            pc[p] = "acquire" /\ lock[lockObj[p]] = {} /\ pc'[p] # "acquire"
               => pc'[p] = "locked" /\ acquired'[p]]_vars

\* both invocations were started with the lock free; one ran the engine to
\* its end, the other was skipped on contention, and the lock is free again
C19_Witness ==
    \E p, q \in Procs :
        /\ pc[p] = "done" /\ engine[p] = "finished" /\ startedFree[p]
        /\ pc[q] = "done" /\ timedOut[q] /\ startedFree[q]
        /\ \A f \in LockFiles : lock[f] = {}

====
